---- MODULE Spec2Model ----
(***************************************************************************)
(* Model of the fixed-capacity ring buffer of ring_buffer.c/ring_buffer.h. *)
(* The handle (ring_buffer_t) and the caller-owned storage are the state;  *)
(* every public function is one action, called one at a time.              *)
(* Byte strings (storage, elements) are sequences; C offset o is index o+1. *)
(***************************************************************************)
EXTENDS Integers, Sequences, FiniteSets, TLC

(* ------------------------------ bounds --------------------------------- *)
\* largest length (capacity) a caller passes to ring_buffer_init
MaxCap == 3
\* largest element_size a caller passes to ring_buffer_init
MaxElemSize == 2
\* successful pushes in one run of the calling program
MaxHist == 4
\* bits of a uint32_t in the model (32 in the program: the model's integers
\* are scaled down, size_t having twice as many bits)
Uint32Bits == 4

(* ------------------------- program constants --------------------------- *)
RING_BUFFER_INITIALIZE_MASK == 93
RING_BUFFER_OK == 0
RING_BUFFER_FAIL == 1
RING_BUFFER_INVALID_PARAMS == 2
RING_BUFFER_FULL == 3
RING_BUFFER_EMPTY == 4
RING_BUFFER_NOT_INITIALIZED == 5
RING_BUFFER_ALREADY_INITIALIZED == 6
RING_BUFFER_UNKNOWN_ERROR == 255
\* uint32_t arithmetic is modulo 2^32, size_t arithmetic modulo 2^64
UINT32_MOD == 2 ^ Uint32Bits
SIZE_MOD == 2 ^ (2 * Uint32Bits)
\* no status: the call did not return
NoReturn == 0 - 1

\* contents of a byte of memory no call has written yet
ByteVals == {0, 255}
\* the integers the caller pushes (main pushes int values)
Values == {1, 258}
\* the first n bytes of the little-endian representation of integer v
\* (v < 2^24: the bytes from the fourth on are zero)
ToBytes(v, n) ==
    [i \in 1..n |-> IF i <= 3 THEN (v \div (256 ^ (i - 1))) % 256 ELSE 0]
\* the n-byte elements the caller pushes
Elements(n) == {ToBytes(v, n) : v \in Values}
\* what an element pointer refers to: nothing when it is NULL
PointedAt(element_ptr, n) == IF element_ptr = "NULL" THEN {<<>>} ELSE Elements(n)
\* n bytes all equal to b
Fill(n, b) == [i \in 1..n |-> b]

(* ------------------------------ the handle ----------------------------- *)
\* memset(handle, 0, sizeof(ring_buffer_t))
ZeroHandle ==
    [buffer |-> "NULL", length |-> 0, element_size |-> 0, head |-> 0,
     tail |-> 0, init_flag |-> 0, is_full |-> 0, is_empty |-> 0,
     is_dynamic |-> 0]

\* ring_buffer_t objects: what the handle memory may hold before any call
\* (main declares the handle without an initializer, so its bytes are
\* indeterminate): all zero, or one of a few other contents, under each
\* value of the init_flag byte.
ring_buffer_t ==
    {[g EXCEPT !.init_flag = f] :
        g \in {ZeroHandle,
               [ZeroHandle EXCEPT !.buffer = "storage", !.length = 2,
                                  !.element_size = 1, !.is_empty = 1,
                                  !.is_dynamic = 1],
               [ZeroHandle EXCEPT !.buffer = "storage", !.length = 2,
                                  !.element_size = 1, !.head = 1,
                                  !.is_full = 1, !.is_empty = 1],
               [ZeroHandle EXCEPT !.length = 2, !.element_size = 1,
                                  !.tail = 1],
               [ZeroHandle EXCEPT !.buffer = "storage", !.head = 1,
                                  !.is_full = 1]},
        f \in {0, RING_BUFFER_INITIALIZE_MASK, RING_BUFFER_UNKNOWN_ERROR}}

\* the number of push attempts of the enqueue thread (main.c: 16, more
\* than the buffer holds), scaled with the buffer length
TOTAL_ELEMENTS == 6

VARIABLES
    BUFFER_LENGTH, \* the program's buffer length, fixed for the run
    ELEMENT_SIZE,  \* the program's element size, fixed for the run
    ring_buffer,   \* the handle object (ring_buffer_t)
    buffer,        \* the caller-owned storage bytes
    element,       \* the caller's output element of pop
    last,          \* the last call: function, arguments, returned status
    fault,         \* the process performed an undefined access and is gone
    live,          \* an init succeeded and no destroy succeeded since
    pushed,        \* elements of the successful pushes since init/clear
    popped,        \* elements of the successful pops since init/clear
    pushes         \* number of successful pushes of the run

\* the threads of a program that calls the functions from several threads
VARIABLES
    pc,            \* the statement each thread is at
    mutex,         \* the pthread mutex: its owner, "free", or not in use
    enqueue_i,     \* enqueue_thread's loop counter i
    status,        \* each thread's local variable status
    frame,         \* the locals of the push / pop call in progress
    cancel,        \* pthread_cancel was requested for the enqueue thread
    overlap        \* two calls have been in progress at the same time

\* the thread variables
threads == <<pc, mutex, enqueue_i, status, frame, cancel, overlap>>

vars == <<BUFFER_LENGTH, ELEMENT_SIZE, ring_buffer, buffer, element, last, fault, live, pushed, popped,
          pushes, threads>>

(* ---------------------------- pure helpers ----------------------------- *)
ring_buffer_next_index(index, lenght) ==
    ((index + 1) % UINT32_MOD) % lenght

ring_buffer_prev_index(index, lenght) ==
    IF index = 0 THEN (lenght - 1) % UINT32_MOD ELSE index - 1

\* uint32_t offset = index * element_size
SlotOffset(index, element_size) ==
    ((index * element_size) % SIZE_MOD) % UINT32_MOD

\* memcpy(&dst[off], src, n)
MemWrite(dst, off, src, n) ==
    [i \in 1..Len(dst) |->
        IF (off < i) /\ (i <= off + n) THEN src[i - off] ELSE dst[i]]

\* the n bytes at &src[off]
MemRead(src, off, n) == [i \in 1..n |-> src[off + i]]

\* memset(dst, 0, n)
MemZero(dst, n) == [i \in 1..Len(dst) |-> IF i <= n THEN 0 ELSE dst[i]]

\* an access of n bytes at offset off of the storage stays inside the array
InStorage(hd, mem, off, n) ==
    (hd.buffer = "storage") /\ (off + n <= Len(mem))


(* --------------------------- the six functions ------------------------- *)
\* A call's outcome: returned status, handle and storage after the call.
Outcome(ret, hd, mem) ==
    [ret |-> ret, handle |-> hd, buffer |-> mem, fault |-> FALSE]

\* The call performed an invalid access and the process was terminated.
Crash(hd, mem) ==
    [ret |-> NoReturn, handle |-> hd, buffer |-> mem, fault |-> TRUE]

\* ring_buffer_init refusing only length 0 (it accepts a capacity of 1)
ring_buffer_init_AcceptsOne(handle, hd, element_size, length, buf) ==
    IF (handle = "NULL") \/ (buf = "NULL")
    THEN [ret |-> RING_BUFFER_INVALID_PARAMS, handle |-> hd]
    ELSE IF hd.init_flag = RING_BUFFER_INITIALIZE_MASK
    THEN [ret |-> RING_BUFFER_ALREADY_INITIALIZED, handle |-> hd]
    ELSE IF (element_size = 0) \/ (length < 1)
    THEN [ret |-> RING_BUFFER_INVALID_PARAMS, handle |-> hd]
    ELSE [ret |-> RING_BUFFER_OK,
          handle |-> [ZeroHandle EXCEPT
                         !.element_size = element_size,
                         !.length = length,
                         !.buffer = buf,
                         !.is_empty = 1,
                         !.init_flag = RING_BUFFER_INITIALIZE_MASK]]

\* ring_buffer_init without the memset of the handle
ring_buffer_init_NoMemset(handle, hd, element_size, length, buf) ==
    IF (handle = "NULL") \/ (buf = "NULL")
    THEN [ret |-> RING_BUFFER_INVALID_PARAMS, handle |-> hd]
    ELSE IF hd.init_flag = RING_BUFFER_INITIALIZE_MASK
    THEN [ret |-> RING_BUFFER_ALREADY_INITIALIZED, handle |-> hd]
    ELSE IF (element_size = 0) \/ (length < 2)
    THEN [ret |-> RING_BUFFER_INVALID_PARAMS, handle |-> hd]
    ELSE [ret |-> RING_BUFFER_OK,
          handle |-> [hd EXCEPT
                         !.element_size = element_size,
                         !.length = length,
                         !.buffer = buf,
                         !.is_dynamic = 0,
                         !.is_empty = 1,
                         !.init_flag = RING_BUFFER_INITIALIZE_MASK]]

ring_buffer_init(handle, hd, element_size, length, buf) ==
    IF (handle = "NULL") \/ (buf = "NULL")
    THEN [ret |-> RING_BUFFER_INVALID_PARAMS, handle |-> hd]
    ELSE IF hd.init_flag = RING_BUFFER_INITIALIZE_MASK
    THEN [ret |-> RING_BUFFER_ALREADY_INITIALIZED, handle |-> hd]
    ELSE IF (element_size = 0) \/ (length < 2)
    THEN [ret |-> RING_BUFFER_INVALID_PARAMS, handle |-> hd]
    ELSE [ret |-> RING_BUFFER_OK,
          handle |-> [ZeroHandle EXCEPT
                         !.element_size = element_size,
                         !.length = length,
                         !.buffer = buf,
                         !.is_dynamic = 0,
                         !.is_empty = 1,
                         !.init_flag = RING_BUFFER_INITIALIZE_MASK]]

\* ring_buffer_destroy that clears the init flag and nothing else
ring_buffer_destroy_FlagOnly(handle, hd) ==
    IF handle = "NULL"
    THEN [ret |-> RING_BUFFER_INVALID_PARAMS, handle |-> hd]
    ELSE IF hd.init_flag # RING_BUFFER_INITIALIZE_MASK
    THEN [ret |-> RING_BUFFER_NOT_INITIALIZED, handle |-> hd]
    ELSE [ret |-> RING_BUFFER_OK, handle |-> [hd EXCEPT !.init_flag = 0]]

ring_buffer_destroy(handle, hd) ==
    IF handle = "NULL"
    THEN [ret |-> RING_BUFFER_INVALID_PARAMS, handle |-> hd]
    ELSE IF hd.init_flag # RING_BUFFER_INITIALIZE_MASK
    THEN [ret |-> RING_BUFFER_NOT_INITIALIZED, handle |-> hd]
    ELSE [ret |-> RING_BUFFER_OK, handle |-> ZeroHandle]

\* PushAdvance that reports full one slot early (head + 1 == tail)
PushAdvance_FullEarly(hd) ==
    LET h1 == [hd EXCEPT !.head = ring_buffer_next_index(hd.head, hd.length)]
        h2 == IF ring_buffer_next_index(h1.head, hd.length) = h1.tail
              THEN [h1 EXCEPT !.is_full = 1] ELSE h1
    IN  [h2 EXCEPT !.is_empty = 0]

\* PushAdvance that leaves is_empty as it was
PushAdvance_KeepEmpty(hd) ==
    LET h1 == [hd EXCEPT !.head = ring_buffer_next_index(hd.head, hd.length)]
    IN  IF h1.head = h1.tail THEN [h1 EXCEPT !.is_full = 1] ELSE h1

\* push, lines 112-121: advance head, set is_full on head == tail, clear is_empty
PushAdvance(hd) ==
    LET h1 == [hd EXCEPT !.head = ring_buffer_next_index(hd.head, hd.length)]
        h2 == IF h1.head = h1.tail THEN [h1 EXCEPT !.is_full = 1] ELSE h1
    IN  [h2 EXCEPT !.is_empty = 0]

\* PushCopy writing one byte more than the element
PushCopy_OneMore(hd, mem, elem) ==
    MemWrite(mem, SlotOffset(hd.head, hd.element_size), elem \o <<0>>,
             hd.element_size + 1)

\* PushCopy using the index as the byte offset (no scaling by element_size)
PushCopy_Unscaled(hd, mem, elem) ==
    MemWrite(mem, hd.head, elem, hd.element_size)

\* push, lines 106-110: copy the element into the slot at head
PushCopy(hd, mem, elem) ==
    MemWrite(mem, SlotOffset(hd.head, hd.element_size), elem, hd.element_size)

\* ring_buffer_push without the is_full test: a push on a full buffer
\* overwrites the oldest element
ring_buffer_push_Overwrite(handle, hd, mem, element_ptr, elem) ==
    IF (handle = "NULL") \/ (element_ptr = "NULL")
    THEN {Outcome(RING_BUFFER_INVALID_PARAMS, hd, mem)}
    ELSE IF hd.init_flag # RING_BUFFER_INITIALIZE_MASK
    THEN {Outcome(RING_BUFFER_NOT_INITIALIZED, hd, mem)}
    ELSE IF hd.length = 0
    THEN {Crash(hd, mem)}
    ELSE IF ~InStorage(hd, mem, SlotOffset(hd.head, hd.element_size), hd.element_size)
    THEN {Crash(hd, mem), Outcome(RING_BUFFER_OK, PushAdvance(hd), mem)}
    ELSE {Outcome(RING_BUFFER_OK, PushAdvance(hd), PushCopy(hd, mem, elem))}

\* The set of outcomes of ring_buffer_push(handle, element): one where the
\* behaviour is defined; on an access outside the storage (possible only on
\* a handle whose memory was never set by init) the process is terminated
\* or the write lands outside the modelled objects.
ring_buffer_push(handle, hd, mem, element_ptr, elem) ==
    IF (handle = "NULL") \/ (element_ptr = "NULL")
    THEN {Outcome(RING_BUFFER_INVALID_PARAMS, hd, mem)}
    ELSE IF hd.init_flag # RING_BUFFER_INITIALIZE_MASK
    THEN {Outcome(RING_BUFFER_NOT_INITIALIZED, hd, mem)}
    ELSE IF hd.is_full # 0
    THEN {Outcome(RING_BUFFER_FULL, hd, mem)}
    ELSE IF hd.length = 0
    THEN {Crash(hd, mem)}
    ELSE IF ~InStorage(hd, mem, SlotOffset(hd.head, hd.element_size), hd.element_size)
    THEN {Crash(hd, mem), Outcome(RING_BUFFER_OK, PushAdvance(hd), mem)}
    ELSE {Outcome(RING_BUFFER_OK, PushAdvance(hd), PushCopy(hd, mem, elem))}

\* PopAdvance that leaves is_full as it was
PopAdvance_KeepFull(hd) ==
    LET h1 == [hd EXCEPT !.tail = ring_buffer_next_index(hd.tail, hd.length)]
    IN  IF h1.head = h1.tail THEN [h1 EXCEPT !.is_empty = 1] ELSE h1

\* pop, lines 150-159: advance tail, set is_empty on head == tail, clear is_full
PopAdvance(hd) ==
    LET h1 == [hd EXCEPT !.tail = ring_buffer_next_index(hd.tail, hd.length)]
        h2 == IF h1.head = h1.tail THEN [h1 EXCEPT !.is_empty = 1] ELSE h1
    IN  [h2 EXCEPT !.is_full = 0]

\* PopCopy reading the slot at head instead of the slot at tail
PopCopy_AtHead(hd, mem, out) ==
    MemWrite(out, 0,
             MemRead(mem, SlotOffset(hd.head, hd.element_size), hd.element_size),
             hd.element_size)

\* pop, lines 144-148: copy the slot at tail into the caller's element
PopCopy(hd, mem, out) ==
    MemWrite(out, 0,
             MemRead(mem, SlotOffset(hd.tail, hd.element_size), hd.element_size),
             hd.element_size)

\* A pop outcome also carries the caller's element after the call.
PopOutcome(ret, hd, mem, out) ==
    [ret |-> ret, handle |-> hd, buffer |-> mem, element |-> out,
     fault |-> FALSE]

PopCrash(hd, mem, out) ==
    [ret |-> NoReturn, handle |-> hd, buffer |-> mem, element |-> out,
     fault |-> TRUE]

\* ring_buffer_pop that copies the slot at tail out before it tests is_empty
ring_buffer_pop_CopyFirst(handle, hd, mem, element_ptr, out) ==
    IF (handle = "NULL") \/ (element_ptr = "NULL")
    THEN {PopOutcome(RING_BUFFER_INVALID_PARAMS, hd, mem, out)}
    ELSE IF hd.init_flag # RING_BUFFER_INITIALIZE_MASK
    THEN {PopOutcome(RING_BUFFER_NOT_INITIALIZED, hd, mem, out)}
    ELSE IF (hd.length = 0)
            \/ ~InStorage(hd, mem, SlotOffset(hd.tail, hd.element_size),
                          hd.element_size)
            \/ (hd.element_size > Len(out))
    THEN {PopCrash(hd, mem, out)}
    ELSE IF hd.is_empty # 0
    THEN {PopOutcome(RING_BUFFER_EMPTY, hd, mem, PopCopy(hd, mem, out))}
    ELSE {PopOutcome(RING_BUFFER_OK, PopAdvance(hd), mem, PopCopy(hd, mem, out))}

\* The set of outcomes of ring_buffer_pop(handle, element); on a read outside
\* the storage the process is terminated or the element receives any bytes.
ring_buffer_pop(handle, hd, mem, element_ptr, out) ==
    IF (handle = "NULL") \/ (element_ptr = "NULL")
    THEN {PopOutcome(RING_BUFFER_INVALID_PARAMS, hd, mem, out)}
    ELSE IF hd.init_flag # RING_BUFFER_INITIALIZE_MASK
    THEN {PopOutcome(RING_BUFFER_NOT_INITIALIZED, hd, mem, out)}
    ELSE IF hd.is_empty # 0
    THEN {PopOutcome(RING_BUFFER_EMPTY, hd, mem, out)}
    ELSE IF hd.length = 0
    THEN {PopCrash(hd, mem, out)}
    ELSE IF ~InStorage(hd, mem, SlotOffset(hd.tail, hd.element_size), hd.element_size)
            \/ (hd.element_size > Len(out))
    THEN {PopCrash(hd, mem, out)} \cup
         {PopOutcome(RING_BUFFER_OK, PopAdvance(hd), mem, Fill(Len(out), b)) :
             b \in ByteVals}
    ELSE {PopOutcome(RING_BUFFER_OK, PopAdvance(hd), mem, PopCopy(hd, mem, out))}

\* ring_buffer_state without the is_full branch
ring_buffer_state_NoFull(handle, hd) ==
    IF handle = "NULL" THEN RING_BUFFER_INVALID_PARAMS
    ELSE IF hd.init_flag # RING_BUFFER_INITIALIZE_MASK
    THEN RING_BUFFER_NOT_INITIALIZED
    ELSE IF hd.is_empty # 0 THEN RING_BUFFER_EMPTY
    ELSE RING_BUFFER_OK

\* ring_buffer_state reporting the catch-all code when neither flag is set
ring_buffer_state_Unknown(handle, hd) ==
    IF handle = "NULL" THEN RING_BUFFER_INVALID_PARAMS
    ELSE IF hd.init_flag # RING_BUFFER_INITIALIZE_MASK
    THEN RING_BUFFER_NOT_INITIALIZED
    ELSE IF hd.is_empty # 0 THEN RING_BUFFER_EMPTY
    ELSE IF hd.is_full # 0 THEN RING_BUFFER_FULL
    ELSE RING_BUFFER_UNKNOWN_ERROR

ring_buffer_state(handle, hd) ==
    IF handle = "NULL" THEN RING_BUFFER_INVALID_PARAMS
    ELSE IF hd.init_flag # RING_BUFFER_INITIALIZE_MASK
    THEN RING_BUFFER_NOT_INITIALIZED
    ELSE IF hd.is_empty # 0 THEN RING_BUFFER_EMPTY
    ELSE IF hd.is_full # 0 THEN RING_BUFFER_FULL
    ELSE RING_BUFFER_OK

\* clear, lines 205-209
ClearIndices(hd) ==
    [hd EXCEPT !.head = 0, !.tail = 0, !.is_full = 0, !.is_empty = 1]

\* ring_buffer_clear zeroing length bytes instead of length * element_size
ring_buffer_clear_LengthOnly(handle, hd, mem) ==
    IF handle = "NULL"
    THEN {Outcome(RING_BUFFER_INVALID_PARAMS, hd, mem)}
    ELSE IF hd.init_flag # RING_BUFFER_INITIALIZE_MASK
    THEN {Outcome(RING_BUFFER_NOT_INITIALIZED, hd, mem)}
    ELSE IF ~InStorage(hd, mem, 0, hd.length)
    THEN {Crash(hd, mem), Outcome(RING_BUFFER_OK, ClearIndices(hd), mem)}
    ELSE {Outcome(RING_BUFFER_OK, ClearIndices(hd), MemZero(mem, hd.length))}

\* ring_buffer_clear without the init_flag test
ring_buffer_clear_Unchecked(handle, hd, mem) ==
    IF handle = "NULL"
    THEN {Outcome(RING_BUFFER_INVALID_PARAMS, hd, mem)}
    ELSE IF ~InStorage(hd, mem, 0, (hd.length * hd.element_size) % SIZE_MOD)
    THEN {Crash(hd, mem), Outcome(RING_BUFFER_OK, ClearIndices(hd), mem)}
    ELSE {Outcome(RING_BUFFER_OK, ClearIndices(hd),
                  MemZero(mem, (hd.length * hd.element_size) % SIZE_MOD))}

\* The set of outcomes of ring_buffer_clear(handle).
ring_buffer_clear(handle, hd, mem) ==
    IF handle = "NULL"
    THEN {Outcome(RING_BUFFER_INVALID_PARAMS, hd, mem)}
    ELSE IF hd.init_flag # RING_BUFFER_INITIALIZE_MASK
    THEN {Outcome(RING_BUFFER_NOT_INITIALIZED, hd, mem)}
    ELSE IF ~InStorage(hd, mem, 0, (hd.length * hd.element_size) % SIZE_MOD)
    THEN {Crash(hd, mem), Outcome(RING_BUFFER_OK, ClearIndices(hd), mem)}
    ELSE {Outcome(RING_BUFFER_OK, ClearIndices(hd),
                  MemZero(mem, (hd.length * hd.element_size) % SIZE_MOD))}

(* ------------------------- the calling program ------------------------- *)
\* pointer arguments: absent (NULL) or the one object of that kind
HandlePtrs == {"NULL", "rb"}
ElementPtrs == {"NULL", "element"}
BufferPtrs == {"NULL", "storage"}

\* the argument lists of the init calls: the program's sizes and storage,
\* the lists with one of the four arguments refused, and lists with several
InitArgs ==
    [handle : HandlePtrs, element_size : {ELEMENT_SIZE},
     length : {BUFFER_LENGTH}, buf : {"storage"}]
    \cup [handle : {"rb"}, element_size : {ELEMENT_SIZE},
          length : {0, 1, BUFFER_LENGTH}, buf : {"storage"}]
    \cup [handle : {"rb"}, element_size : {0, ELEMENT_SIZE},
          length : {BUFFER_LENGTH}, buf : BufferPtrs]
    \cup [handle : {"rb"}, element_size : {0}, length : {1}, buf : BufferPtrs]

\* the record of a call
Call(op, ret, handle, element_ptr, elem, element_size, length, buf, pre) ==
    [op |-> op, ret |-> ret, handle |-> handle, element_ptr |-> element_ptr,
     elem |-> elem, element_size |-> element_size, length |-> length,
     buf |-> buf, pre |-> pre]

\* the status ring_buffer_state would return on the present handle
Pre == ring_buffer_state("rb", ring_buffer)

\* the thread names: main and the two workers it creates
Threads == {"main", "enqueue", "dequeue"}
Workers == {"enqueue", "dequeue"}

\* the locals of a call that has not begun
NoFrame == [elem |-> <<>>, offset |-> 0]

\* the program calls the functions from one thread, one call after another
NoThreads ==
    /\ pc = [t \in Threads |-> "none"]
    /\ mutex = "none"
    /\ enqueue_i = 0
    /\ status = [t \in Threads |-> NoReturn]
    /\ frame = [t \in Workers |-> NoFrame]
    /\ cancel = FALSE
    /\ overlap = FALSE

Init ==
    /\ NoThreads
    /\ BUFFER_LENGTH \in 2..MaxCap
    /\ ELEMENT_SIZE \in 1..MaxElemSize
    /\ ring_buffer \in ring_buffer_t
    /\ \E b \in ByteVals :
         /\ buffer = Fill(BUFFER_LENGTH * ELEMENT_SIZE, b)
         /\ element = Fill(ELEMENT_SIZE, b)
    /\ last = Call("none", NoReturn, "NULL", "NULL", <<>>, 0, 0, "NULL", NoReturn)
    /\ fault = FALSE
    /\ live = FALSE
    /\ pushed = <<>>
    /\ popped = <<>>
    /\ pushes = 0

InitCall ==
    /\ ~fault
    /\ \E a \in InitArgs :
         LET r == ring_buffer_init(a.handle, ring_buffer, a.element_size,
                                   a.length, a.buf)
             ok == r.ret = RING_BUFFER_OK
         IN  /\ ring_buffer' = r.handle
             /\ last' = Call("init", r.ret, a.handle, "NULL", <<>>,
                             a.element_size, a.length, a.buf, Pre)
             /\ live' = (live \/ ok)
             /\ pushed' = IF ok THEN <<>> ELSE pushed
             /\ popped' = IF ok THEN <<>> ELSE popped
    /\ UNCHANGED <<threads, BUFFER_LENGTH, ELEMENT_SIZE, buffer, element, fault, pushes>>

Destroy ==
    /\ ~fault
    /\ \E handle \in HandlePtrs :
         LET r == ring_buffer_destroy(handle, ring_buffer)
             ok == r.ret = RING_BUFFER_OK
         IN  /\ ring_buffer' = r.handle
             /\ last' = Call("destroy", r.ret, handle, "NULL", <<>>, 0, 0,
                             "NULL", Pre)
             /\ live' = (live /\ ~ok)
             /\ pushed' = IF ok THEN <<>> ELSE pushed
             /\ popped' = IF ok THEN <<>> ELSE popped
    /\ UNCHANGED <<threads, BUFFER_LENGTH, ELEMENT_SIZE, buffer, element, fault, pushes>>

Push ==
    /\ ~fault
    /\ \E handle \in HandlePtrs, element_ptr \in ElementPtrs :
       \E elem \in PointedAt(element_ptr, ELEMENT_SIZE) :
         \E r \in ring_buffer_push(handle, ring_buffer, buffer, element_ptr, elem) :
           LET ok == live /\ (r.ret = RING_BUFFER_OK)
           IN  /\ ok => pushes < MaxHist
               /\ pushes' = IF ok THEN pushes + 1 ELSE pushes
               /\ ring_buffer' = r.handle
               /\ buffer' = r.buffer
               /\ fault' = r.fault
               /\ last' = Call("push", r.ret, handle, element_ptr, elem, 0, 0,
                               "NULL", Pre)
               /\ pushed' = IF ok THEN Append(pushed, elem) ELSE pushed
    /\ UNCHANGED <<threads, BUFFER_LENGTH, ELEMENT_SIZE, element, live, popped>>

Pop ==
    /\ ~fault
    /\ \E handle \in HandlePtrs, element_ptr \in ElementPtrs :
         \E r \in ring_buffer_pop(handle, ring_buffer, buffer, element_ptr, element) :
           LET ok == live /\ (r.ret = RING_BUFFER_OK)
           IN  /\ ring_buffer' = r.handle
               /\ buffer' = r.buffer
               /\ element' = r.element
               /\ fault' = r.fault
               /\ last' = Call("pop", r.ret, handle, element_ptr, <<>>, 0, 0,
                               "NULL", Pre)
               /\ popped' = IF ok
                            THEN Append(popped,
                                        SubSeq(r.element, 1, ring_buffer.element_size))
                            ELSE popped
    /\ UNCHANGED <<threads, BUFFER_LENGTH, ELEMENT_SIZE, live, pushed, pushes>>

State ==
    /\ ~fault
    /\ \E handle \in HandlePtrs :
         last' = Call("state", ring_buffer_state(handle, ring_buffer), handle,
                      "NULL", <<>>, 0, 0, "NULL", Pre)
    /\ UNCHANGED <<threads, BUFFER_LENGTH, ELEMENT_SIZE, ring_buffer, buffer, element,
                   fault, live, pushed, popped, pushes>>

Clear ==
    /\ ~fault
    /\ \E handle \in HandlePtrs :
         \E r \in ring_buffer_clear(handle, ring_buffer, buffer) :
           LET ok == r.ret = RING_BUFFER_OK
           IN  /\ ring_buffer' = r.handle
               /\ buffer' = r.buffer
               /\ fault' = r.fault
               /\ last' = Call("clear", r.ret, handle, "NULL", <<>>, 0, 0,
                               "NULL", Pre)
               /\ pushed' = IF ok THEN <<>> ELSE pushed
               /\ popped' = IF ok THEN <<>> ELSE popped
    /\ UNCHANGED <<threads, BUFFER_LENGTH, ELEMENT_SIZE, element, live, pushes>>

Next == InitCall \/ Destroy \/ Push \/ Pop \/ State \/ Clear

Spec == Init /\ [][Next]_vars

(* ------------------------------ properties ----------------------------- *)
\* s is a prefix of t
IsPrefix(s, t) == (Len(s) <= Len(t)) /\ (SubSeq(t, 1, Len(s)) = s)

\* number of elements held: successful pushes minus successful pops since
\* the last init or clear
Count == Len(pushed) - Len(popped)

\* C1: the values returned by the successful pops are, in order, a prefix of
\* the values passed to the successful pushes since the last init/clear.
C1_FifoOrder == IsPrefix(popped, pushed)

\* C1 witness: more pushes than the buffer has slots (head wrapped past the
\* end of storage), two different values among them, and every one popped.
C1_Witness ==
    /\ live
    /\ last.op = "pop" /\ last.ret = RING_BUFFER_OK
    /\ Len(pushed) > ring_buffer.length
    /\ popped = pushed
    /\ \E i, j \in 1..Len(pushed) : pushed[i] # pushed[j]

\* C2: an initialized buffer has head and tail inside 0..capacity-1, never
\* both flags set, and head == tail exactly when one of the flags is set.
C2_IndexFlagInvariant ==
    live =>
        /\ (0 <= ring_buffer.head) /\ (ring_buffer.head < ring_buffer.length)
        /\ (0 <= ring_buffer.tail) /\ (ring_buffer.tail < ring_buffer.length)
        /\ ~((ring_buffer.is_full # 0) /\ (ring_buffer.is_empty # 0))
        /\ (ring_buffer.head = ring_buffer.tail)
             <=> ((ring_buffer.is_full # 0) \/ (ring_buffer.is_empty # 0))

\* C2 witness: a full buffer whose equal indices are not at slot 0.
C2_Witness ==
    /\ live
    /\ ring_buffer.is_full # 0
    /\ ring_buffer.head = ring_buffer.tail
    /\ ring_buffer.head > 0

\* C3: the number of elements held is between 0 and capacity, 0 when
\* is_empty is set, capacity when is_full is set, and otherwise
\* (head - tail + capacity) mod capacity.
C3_ElementCount ==
    live =>
        /\ (0 <= Count) /\ (Count <= ring_buffer.length)
        /\ (ring_buffer.is_empty # 0) => (Count = 0)
        /\ (ring_buffer.is_full # 0) => (Count = ring_buffer.length)
        /\ ((ring_buffer.is_empty = 0) /\ (ring_buffer.is_full = 0)) =>
             (Count = (ring_buffer.head - ring_buffer.tail + ring_buffer.length)
                          % ring_buffer.length)

\* C3 witness: a partially filled buffer whose head has wrapped behind tail.
C3_Witness ==
    /\ live
    /\ ring_buffer.is_empty = 0 /\ ring_buffer.is_full = 0
    /\ ring_buffer.head < ring_buffer.tail
    /\ Count = 2

\* a call of op on the present handle with every pointer argument present
ValidCall(call, op) ==
    /\ call.op = op
    /\ call.handle = "rb"
    /\ (op \in {"push", "pop"}) => (call.element_ptr # "NULL")
    /\ (op = "init") => (call.buf # "NULL")

\* the handle and the storage are what they were before the step
HandleAndStorageUnchanged ==
    (ring_buffer' = ring_buffer) /\ (buffer' = buffer)

\* C4: on an initialized buffer a push with a present element returns Ok
\* exactly when fewer than capacity elements are held; otherwise it returns
\* Full and changes neither the storage nor the handle; after the push that
\* fills the last slot state() is Full.
C4_PushFillsAndRejects ==
    [][(live /\ ValidCall(last', "push")) =>
         /\ (last'.ret = RING_BUFFER_OK) <=> (Count < ring_buffer.length)
         /\ (last'.ret # RING_BUFFER_OK) =>
                (last'.ret = RING_BUFFER_FULL) /\ HandleAndStorageUnchanged
         /\ ((last'.ret = RING_BUFFER_OK) /\ (Count + 1 = ring_buffer.length)) =>
                (ring_buffer_state("rb", ring_buffer') = RING_BUFFER_FULL)
      ]_vars

\* C4 witness: a push was rejected with Full on a buffer that had been filled
\* by capacity pushes in a row from empty.
C4_Witness ==
    /\ live
    /\ ValidCall(last, "push") /\ last.ret = RING_BUFFER_FULL
    /\ Len(pushed) = ring_buffer.length /\ popped = <<>>
    /\ ring_buffer_state("rb", ring_buffer) = RING_BUFFER_FULL

\* C5: on an initialized buffer a pop with a present element returns Ok
\* exactly when at least one element is held; on a buffer holding none it
\* returns Empty and changes neither the handle, the storage nor the caller's
\* element, however often it is repeated.
C5_PopOnEmpty ==
    [][(live /\ ValidCall(last', "pop")) =>
         /\ (last'.ret = RING_BUFFER_OK) <=> (Count >= 1)
         /\ (Count = 0) =>
                /\ last'.ret = RING_BUFFER_EMPTY
                /\ HandleAndStorageUnchanged
                /\ element' = element
      ]_vars

\* C5 witness: a pop returned Empty on a buffer that was emptied by pops and
\* whose indices are not at slot 0, the caller's element still holding the
\* last popped value.
C5_Witness ==
    /\ live
    /\ ValidCall(last, "pop") /\ last.ret = RING_BUFFER_EMPTY
    /\ ring_buffer.head = ring_buffer.tail /\ ring_buffer.head > 0
    /\ popped # <<>> /\ element = popped[Len(popped)]

\* C6 as claimed: after any successful push of v, an immediately following
\* pop returns exactly v and leaves the buffer Empty.
C6_RoundTripAnyState ==
    [][(live /\ ValidCall(last, "push") /\ (last.ret = RING_BUFFER_OK)
             /\ ValidCall(last', "pop")) =>
         /\ last'.ret = RING_BUFFER_OK
         /\ element' = last.elem
         /\ ring_buffer_state("rb", ring_buffer') = RING_BUFFER_EMPTY
      ]_vars

\* C6 amended: after a successful push of v onto an Empty buffer, an
\* immediately following pop returns exactly v and leaves the buffer Empty.
C6_RoundTripFromEmpty ==
    [][(live /\ ValidCall(last, "push") /\ (last.ret = RING_BUFFER_OK)
             /\ (last.pre = RING_BUFFER_EMPTY)
             /\ ValidCall(last', "pop")) =>
         /\ last'.ret = RING_BUFFER_OK
         /\ element' = last.elem
         /\ ring_buffer_state("rb", ring_buffer') = RING_BUFFER_EMPTY
      ]_vars

\* C6 witness: one push and one pop since the last init/clear, made at a slot
\* other than slot 0 with an element of more than one byte; the pop returned
\* the pushed bytes and the buffer is Empty.
C6_Witness ==
    /\ live
    /\ ValidCall(last, "pop") /\ last.ret = RING_BUFFER_OK
    /\ Len(pushed) = 1 /\ popped = pushed /\ element = pushed[1]
    /\ ring_buffer.element_size > 1
    /\ ring_buffer.head = ring_buffer.tail /\ ring_buffer.head > 0
    /\ ring_buffer_state("rb", ring_buffer) = RING_BUFFER_EMPTY

\* the functions other than init
GatedOps == {"push", "pop", "state", "clear", "destroy"}

RefusedInitArgs(call) ==
    (call.buf = "NULL") \/ (call.element_size = 0) \/ (call.length < 2)

\* C8 as claimed, on a handle set by a successful init or not carrying the
\* initialization mask: every init call with an absent storage pointer,
\* element_size == 0 or capacity < 2 returns InvalidParameters and leaves the
\* handle unchanged.
C8_InvalidParamsAlways ==
    [][((last'.op = "init") /\ RefusedInitArgs(last')
          /\ (live \/ (ring_buffer.init_flag # RING_BUFFER_INITIALIZE_MASK))) =>
         (last'.ret = RING_BUFFER_INVALID_PARAMS) /\ (ring_buffer' = ring_buffer)
      ]_vars

\* C8 amended: every init call with an absent storage pointer returns
\* InvalidParameters; one with element_size == 0 or capacity < 2 returns
\* InvalidParameters unless the handle's init_flag is the initialization mask
\* and handle and storage are present, when it returns AlreadyInitialized;
\* in all these cases the handle is unchanged.
C8_InitValidation ==
    [][((last'.op = "init") /\ RefusedInitArgs(last')) =>
         /\ ring_buffer' = ring_buffer
         /\ last'.ret =
              IF (last'.handle = "rb") /\ (last'.buf # "NULL")
                 /\ (ring_buffer.init_flag = RING_BUFFER_INITIALIZE_MASK)
              THEN RING_BUFFER_ALREADY_INITIALIZED
              ELSE RING_BUFFER_INVALID_PARAMS
      ]_vars

\* C8 witness: init with capacity 1, a valid element size and present
\* storage returned InvalidParameters.
C8_Witness ==
    /\ last.op = "init" /\ last.ret = RING_BUFFER_INVALID_PARAMS
    /\ last.handle = "rb" /\ last.buf = "storage"
    /\ last.length = 1 /\ last.element_size = ELEMENT_SIZE

\* C9: an init call (handle and storage present) returns AlreadyInitialized
\* exactly when a previous init succeeded and no destroy succeeded since,
\* whatever the handle memory held before its first init; then handle and
\* storage are unchanged.
C9_AlreadyInitializedIff ==
    [][ValidCall(last', "init") =>
         /\ (last'.ret = RING_BUFFER_ALREADY_INITIALIZED) <=> live
         /\ (last'.ret = RING_BUFFER_ALREADY_INITIALIZED) =>
                HandleAndStorageUnchanged
      ]_vars

\* C10: after a successful init the handle is initialized with
\* head = tail = 0, is_empty set, is_full clear, the element_size, capacity
\* and storage of the call bound, and state() returns Empty; the sizes of a
\* successful call are element_size >= 1 and capacity >= 2.
C10_InitPostcondition ==
    ((last.op = "init") /\ (last.ret = RING_BUFFER_OK)) =>
        /\ live
        /\ (last.element_size >= 1) /\ (last.length >= 2) /\ (last.buf = "storage")
        /\ ring_buffer =
             [buffer |-> last.buf, length |-> last.length,
              element_size |-> last.element_size, head |-> 0, tail |-> 0,
              init_flag |-> RING_BUFFER_INITIALIZE_MASK, is_full |-> 0,
              is_empty |-> 1, is_dynamic |-> 0]
        /\ ring_buffer_state("rb", ring_buffer) = RING_BUFFER_EMPTY

\* C10 witness: an init succeeded after a destroy, on storage that still
\* holds an element pushed before.
C10_Witness ==
    /\ last.op = "init" /\ last.ret = RING_BUFFER_OK
    /\ pushes > 0
    /\ \E i \in 1..Len(buffer) : buffer[i] \notin ByteVals

\* C11: a clear of an initialized buffer, whatever it holds, returns Ok and
\* leaves head = tail = 0, is_full clear, is_empty set (state() is Empty),
\* every byte of the capacity * element_size storage region zero, and
\* element_size, capacity, the storage binding and init_flag as they were.
C11_ClearPostcondition ==
    [][(live /\ ValidCall(last', "clear")) =>
          /\ last'.ret = RING_BUFFER_OK
          /\ ring_buffer' = [ring_buffer EXCEPT !.head = 0, !.tail = 0,
                                                !.is_full = 0, !.is_empty = 1]
          /\ ring_buffer_state("rb", ring_buffer') = RING_BUFFER_EMPTY
          /\ Len(buffer') = ring_buffer.length * ring_buffer.element_size
          /\ \A k \in 1..(ring_buffer.length * ring_buffer.element_size) :
               buffer'[k] = 0]_vars

\* C11 witness: a clear of a full buffer whose storage held non-zero
\* elements of more than one byte; the storage is now all zero.
C11_Witness ==
    /\ live
    /\ last.op = "clear" /\ last.ret = RING_BUFFER_OK
    /\ last.pre = RING_BUFFER_FULL
    /\ ring_buffer.element_size > 1
    /\ pushes >= ring_buffer.length
    /\ \A k \in 1..Len(buffer) : buffer[k] = 0

\* C12: a destroy of an initialized buffer returns Ok, leaves every field of
\* the handle zero / null and every storage byte as it was; a destroy that
\* follows it with no init in between returns NotInitialized.
C12_DestroyPostcondition ==
    [][/\ (live /\ ValidCall(last', "destroy")) =>
            /\ last'.ret = RING_BUFFER_OK
            /\ ring_buffer' = ZeroHandle
            /\ buffer' = buffer
       /\ (/\ ValidCall(last, "destroy") /\ last.ret = RING_BUFFER_OK
           /\ ValidCall(last', "destroy")) =>
            /\ last'.ret = RING_BUFFER_NOT_INITIALIZED
            /\ HandleAndStorageUnchanged]_vars

\* C12 witness: the second of two destroys in a row, on a buffer whose
\* storage still holds the pushed element.
C12_Witness ==
    /\ last.op = "destroy" /\ last.ret = RING_BUFFER_NOT_INITIALIZED
    /\ last.pre = RING_BUFFER_NOT_INITIALIZED
    /\ ring_buffer = ZeroHandle
    /\ pushes > 0
    /\ \E k \in 1..Len(buffer) : buffer[k] \notin ByteVals

\* C13: state() on an initialized buffer returns Empty exactly when no
\* element is held, Full exactly when capacity elements are held and Ok
\* otherwise, and changes neither the handle nor the storage.
C13_StateQuery ==
    [][(live /\ ValidCall(last', "state")) =>
          /\ (last'.ret = RING_BUFFER_EMPTY) <=> (Count = 0)
          /\ (last'.ret = RING_BUFFER_FULL) <=> (Count = ring_buffer.length)
          /\ (last'.ret = RING_BUFFER_OK) <=>
                ((0 < Count) /\ (Count < ring_buffer.length))
          /\ HandleAndStorageUnchanged
          /\ element' = element]_vars

\* C13 witness: state() answered Full on a buffer whose indices are not 0.
C13_Witness ==
    /\ live
    /\ last.op = "state" /\ last.ret = RING_BUFFER_FULL
    /\ Count = ring_buffer.length
    /\ ring_buffer.head > 0

\* C14: a successful push on an initialized buffer changes no storage byte
\* outside the slot at the old head and leaves tail as it was; a successful
\* pop changes no storage byte and leaves head as it was.
C14_StorageFrame ==
    [][/\ (live /\ ValidCall(last', "push") /\ last'.ret = RING_BUFFER_OK) =>
            /\ \A k \in 1..Len(buffer) :
                 ((k <= ring_buffer.head * ring_buffer.element_size)
                    \/ (k > (ring_buffer.head + 1) * ring_buffer.element_size))
                 => (buffer'[k] = buffer[k])
            /\ ring_buffer'.tail = ring_buffer.tail
       /\ (live /\ ValidCall(last', "pop") /\ last'.ret = RING_BUFFER_OK) =>
            /\ buffer' = buffer
            /\ ring_buffer'.head = ring_buffer.head]_vars

\* C14 witness: a push into the middle slot of a three-slot buffer of
\* multi-byte elements while the slot before it holds an unpopped element.
C14_Witness ==
    /\ live
    /\ last.op = "push" /\ last.ret = RING_BUFFER_OK
    /\ ring_buffer.element_size > 1
    /\ ring_buffer.head = 2
    /\ ring_buffer.tail = 0
    /\ Count = 2

\* the status codes the six functions document
DocumentedStatus ==
    {RING_BUFFER_OK, RING_BUFFER_INVALID_PARAMS, RING_BUFFER_ALREADY_INITIALIZED,
     RING_BUFFER_NOT_INITIALIZED, RING_BUFFER_FULL, RING_BUFFER_EMPTY}

\* C15: a call that returns, returns one of Ok, InvalidParameters,
\* AlreadyInitialized, NotInitialized, Full, Empty (never UnknownError or
\* RING_BUFFER_FAIL); Full comes only from push and state, Empty only from
\* pop and state, AlreadyInitialized only from init.
C15_ClosedStatusSet ==
    ((last.op # "none") /\ (last.ret # NoReturn)) =>
        /\ last.ret \in DocumentedStatus
        /\ last.ret \notin {RING_BUFFER_FAIL, RING_BUFFER_UNKNOWN_ERROR}
        /\ (last.ret = RING_BUFFER_FULL) => (last.op \in {"push", "state"})
        /\ (last.ret = RING_BUFFER_EMPTY) => (last.op \in {"pop", "state"})
        /\ (last.ret = RING_BUFFER_ALREADY_INITIALIZED) => (last.op = "init")

\* C15 witness: state() returned Ok on a partially filled buffer, the answer
\* that is neither of its two flag codes.
C15_Witness ==
    /\ live
    /\ last.op = "state" /\ last.ret = RING_BUFFER_OK
    /\ Count > 0

\* the lifecycle state of a handle: NotInitialized for uninitialized, Empty,
\* Full, and Ok for partially filled
Lifecycle(hd) == ring_buffer_state("rb", hd)

\* C17: over uninitialized, empty, partial, full: only a successful init
\* leaves uninitialized and only a successful destroy enters it; a
\* successful push never moves to empty and never from empty to full; a
\* successful pop never moves to full and never from full to empty; only
\* clear takes full to empty in one step; a failed call changes nothing.
C17_StateMachineShape ==
    [][LET from == Lifecycle(ring_buffer)
           to == Lifecycle(ring_buffer')
           ok == last'.ret = RING_BUFFER_OK
       IN  /\ ((from = RING_BUFFER_NOT_INITIALIZED)
                 /\ (to # RING_BUFFER_NOT_INITIALIZED))
               => ((last'.op = "init") /\ ok)
           /\ ((from # RING_BUFFER_NOT_INITIALIZED)
                 /\ (to = RING_BUFFER_NOT_INITIALIZED))
               => ((last'.op = "destroy") /\ ok)
           /\ ((last'.op = "push") /\ ok) =>
                /\ to # RING_BUFFER_EMPTY
                /\ ~((from = RING_BUFFER_EMPTY) /\ (to = RING_BUFFER_FULL))
           /\ ((last'.op = "pop") /\ ok) =>
                /\ to # RING_BUFFER_FULL
                /\ ~((from = RING_BUFFER_FULL) /\ (to = RING_BUFFER_EMPTY))
           /\ ((from = RING_BUFFER_FULL) /\ (to = RING_BUFFER_EMPTY))
               => (last'.op = "clear")
           /\ ((last'.ret # NoReturn) /\ ~ok) => (to = from)]_vars

\* C17 witness: a clear has taken a full buffer to empty in one step.
C17_Witness ==
    /\ live
    /\ last.op = "clear" /\ last.ret = RING_BUFFER_OK
    /\ last.pre = RING_BUFFER_FULL
    /\ Lifecycle(ring_buffer) = RING_BUFFER_EMPTY
    /\ ring_buffer.element_size = 1

(* ------------------ push and pop, statement by statement ---------------- *)
\* The statements of ring_buffer_push and ring_buffer_pop as the steps of the
\* thread that runs them: the enqueue thread pushes, the dequeue thread pops.
\* A label names the function and the line of the statement about to run.
PushPcs == {"push_96", "push_101", "push_107", "push_110", "push_113",
            "push_116", "push_118", "push_121"}
PopPcs == {"pop_134", "pop_139", "pop_145", "pop_148", "pop_151",
           "pop_154", "pop_156", "pop_159"}
CallPcs == PushPcs \cup PopPcs

\* thread t is inside a call of push or pop
InCall(t) == pc[t] \in CallPcs

\* the process is running: no fault, and main has not returned
Running == ~fault /\ (pc["main"] \notin {"return_0", "return_m1"})

\* thread t moves to the statement at label
Goto(t, label) == pc' = [pc EXCEPT ![t] = label]

\* thread t returns st from its call
Return(t, st, label) ==
    /\ status' = [status EXCEPT ![t] = st]
    /\ Goto(t, label)

\* thread t runs a statement of its call: note whether another call is open
Overlapping(t) ==
    overlap' = (overlap \/ (\E u \in Workers \ {t} : InCall(u)))

\* what the statements of push and pop leave alone
callerState == <<BUFFER_LENGTH, ELEMENT_SIZE, last, live, pushed, popped, pushes,
                 mutex, enqueue_i, cancel>>

\* push, line 96: if (handle->init_flag != RING_BUFFER_INITIALIZE_MASK)
PushCheckInit ==
    /\ Running /\ pc["enqueue"] = "push_96"
    /\ IF ring_buffer.init_flag # RING_BUFFER_INITIALIZE_MASK
       THEN Return("enqueue", RING_BUFFER_NOT_INITIALIZED, "push_ret")
       ELSE Goto("enqueue", "push_101") /\ UNCHANGED status
    /\ Overlapping("enqueue")
    /\ UNCHANGED <<callerState, ring_buffer, buffer, element, fault, frame>>

\* push, line 101: if (handle->is_full != 0U)
PushCheckFull ==
    /\ Running /\ pc["enqueue"] = "push_101"
    /\ IF ring_buffer.is_full # 0
       THEN Return("enqueue", RING_BUFFER_FULL, "push_ret")
       ELSE Goto("enqueue", "push_107") /\ UNCHANGED status
    /\ Overlapping("enqueue")
    /\ UNCHANGED <<callerState, ring_buffer, buffer, element, fault, frame>>

\* push, line 107: uint32_t offset = handle->head * handle->element_size
PushOffset ==
    /\ Running /\ pc["enqueue"] = "push_107"
    /\ frame' = [frame EXCEPT !["enqueue"].offset =
                    SlotOffset(ring_buffer.head, ring_buffer.element_size)]
    /\ Goto("enqueue", "push_110")
    /\ Overlapping("enqueue")
    /\ UNCHANGED <<callerState, ring_buffer, buffer, element, fault, status>>

\* push, line 110: memcpy(&handle->buffer[offset], element, element_size);
\* outside the storage the write is undefined: the process is terminated
\* or goes on with the storage as it was
PushMemcpy ==
    /\ Running /\ pc["enqueue"] = "push_110"
    /\ IF InStorage(ring_buffer, buffer, frame["enqueue"].offset,
                    ring_buffer.element_size)
       THEN /\ buffer' = MemWrite(buffer, frame["enqueue"].offset,
                                  frame["enqueue"].elem, ring_buffer.element_size)
            /\ fault' = fault
       ELSE /\ buffer' = buffer
            /\ fault' \in BOOLEAN
    /\ Goto("enqueue", "push_113")
    /\ Overlapping("enqueue")
    /\ UNCHANGED <<callerState, ring_buffer, element, status, frame>>

\* push, line 113: handle->head = ring_buffer_next_index(head, length);
\* with length 0 the remainder is undefined and the process is terminated
PushHead ==
    /\ Running /\ pc["enqueue"] = "push_113"
    /\ IF ring_buffer.length = 0
       THEN fault' = TRUE /\ UNCHANGED ring_buffer
       ELSE /\ ring_buffer' = [ring_buffer EXCEPT !.head =
                   ring_buffer_next_index(ring_buffer.head, ring_buffer.length)]
            /\ fault' = fault
    /\ Goto("enqueue", "push_116")
    /\ Overlapping("enqueue")
    /\ UNCHANGED <<callerState, buffer, element, status, frame>>

\* push, line 116: if (handle->head == handle->tail)
PushCompare ==
    /\ Running /\ pc["enqueue"] = "push_116"
    /\ Goto("enqueue", IF ring_buffer.head = ring_buffer.tail
                       THEN "push_118" ELSE "push_121")
    /\ Overlapping("enqueue")
    /\ UNCHANGED <<callerState, ring_buffer, buffer, element, fault, status, frame>>

\* push, line 118: handle->is_full = 1U
PushSetFull ==
    /\ Running /\ pc["enqueue"] = "push_118"
    /\ ring_buffer' = [ring_buffer EXCEPT !.is_full = 1]
    /\ Goto("enqueue", "push_121")
    /\ Overlapping("enqueue")
    /\ UNCHANGED <<callerState, buffer, element, fault, status, frame>>

\* line 121 left out: is_empty stays as it was
PushClearEmpty_Skipped ==
    /\ Running /\ pc["enqueue"] = "push_121"
    /\ Return("enqueue", RING_BUFFER_OK, "push_ret")
    /\ Overlapping("enqueue")
    /\ UNCHANGED <<callerState, ring_buffer, buffer, element, fault, frame>>

\* push, lines 121-123: handle->is_empty = 0U; return RING_BUFFER_OK
PushClearEmpty ==
    /\ Running /\ pc["enqueue"] = "push_121"
    /\ ring_buffer' = [ring_buffer EXCEPT !.is_empty = 0]
    /\ Return("enqueue", RING_BUFFER_OK, "push_ret")
    /\ Overlapping("enqueue")
    /\ UNCHANGED <<callerState, buffer, element, fault, frame>>

\* pop, line 134: if (handle->init_flag != RING_BUFFER_INITIALIZE_MASK)
PopCheckInit ==
    /\ Running /\ pc["dequeue"] = "pop_134"
    /\ IF ring_buffer.init_flag # RING_BUFFER_INITIALIZE_MASK
       THEN Return("dequeue", RING_BUFFER_NOT_INITIALIZED, "pop_ret")
       ELSE Goto("dequeue", "pop_139") /\ UNCHANGED status
    /\ Overlapping("dequeue")
    /\ UNCHANGED <<callerState, ring_buffer, buffer, element, fault, frame>>

\* pop, line 139: if (handle->is_empty != 0U)
PopCheckEmpty ==
    /\ Running /\ pc["dequeue"] = "pop_139"
    /\ IF ring_buffer.is_empty # 0
       THEN Return("dequeue", RING_BUFFER_EMPTY, "pop_ret")
       ELSE Goto("dequeue", "pop_145") /\ UNCHANGED status
    /\ Overlapping("dequeue")
    /\ UNCHANGED <<callerState, ring_buffer, buffer, element, fault, frame>>

\* pop, line 145: uint32_t offset = handle->tail * handle->element_size
PopOffset ==
    /\ Running /\ pc["dequeue"] = "pop_145"
    /\ frame' = [frame EXCEPT !["dequeue"].offset =
                    SlotOffset(ring_buffer.tail, ring_buffer.element_size)]
    /\ Goto("dequeue", "pop_148")
    /\ Overlapping("dequeue")
    /\ UNCHANGED <<callerState, ring_buffer, buffer, element, fault, status>>

\* pop, line 148: memcpy(element, &handle->buffer[offset], element_size)
PopMemcpy ==
    /\ Running /\ pc["dequeue"] = "pop_148"
    /\ IF InStorage(ring_buffer, buffer, frame["dequeue"].offset,
                    ring_buffer.element_size)
       THEN /\ element' = MemWrite(element, 0,
                              MemRead(buffer, frame["dequeue"].offset,
                                      ring_buffer.element_size),
                              ring_buffer.element_size)
            /\ fault' = fault
       ELSE /\ element' = element
            /\ fault' \in BOOLEAN
    /\ Goto("dequeue", "pop_151")
    /\ Overlapping("dequeue")
    /\ UNCHANGED <<callerState, ring_buffer, buffer, status, frame>>

\* pop, line 151: handle->tail = ring_buffer_next_index(tail, length)
PopTail ==
    /\ Running /\ pc["dequeue"] = "pop_151"
    /\ IF ring_buffer.length = 0
       THEN fault' = TRUE /\ UNCHANGED ring_buffer
       ELSE /\ ring_buffer' = [ring_buffer EXCEPT !.tail =
                   ring_buffer_next_index(ring_buffer.tail, ring_buffer.length)]
            /\ fault' = fault
    /\ Goto("dequeue", "pop_154")
    /\ Overlapping("dequeue")
    /\ UNCHANGED <<callerState, buffer, element, status, frame>>

\* pop, line 154: if (handle->head == handle->tail)
PopCompare ==
    /\ Running /\ pc["dequeue"] = "pop_154"
    /\ Goto("dequeue", IF ring_buffer.head = ring_buffer.tail
                       THEN "pop_156" ELSE "pop_159")
    /\ Overlapping("dequeue")
    /\ UNCHANGED <<callerState, ring_buffer, buffer, element, fault, status, frame>>

\* pop, line 156: handle->is_empty = 1U
PopSetEmpty ==
    /\ Running /\ pc["dequeue"] = "pop_156"
    /\ ring_buffer' = [ring_buffer EXCEPT !.is_empty = 1]
    /\ Goto("dequeue", "pop_159")
    /\ Overlapping("dequeue")
    /\ UNCHANGED <<callerState, buffer, element, fault, status, frame>>

\* pop, lines 159-161: handle->is_full = 0U; return RING_BUFFER_OK
PopClearFull ==
    /\ Running /\ pc["dequeue"] = "pop_159"
    /\ ring_buffer' = [ring_buffer EXCEPT !.is_full = 0]
    /\ Return("dequeue", RING_BUFFER_OK, "pop_ret")
    /\ Overlapping("dequeue")
    /\ UNCHANGED <<callerState, buffer, element, fault, frame>>

\* the statements of push
PushStep ==
    \/ PushCheckInit \/ PushCheckFull \/ PushOffset \/ PushMemcpy
    \/ PushHead \/ PushCompare \/ PushSetFull \/ PushClearEmpty

\* the statements of pop
PopStep ==
    \/ PopCheckInit \/ PopCheckEmpty \/ PopOffset \/ PopMemcpy
    \/ PopTail \/ PopCompare \/ PopSetEmpty \/ PopClearFull

(* ------------- two threads calling push and pop without a lock ---------- *)
\* One thread calls push and another calls pop on the same initialized
\* buffer, each call after its previous one, with nothing ordering the
\* statements of the two threads.
RaceInit ==
    /\ BUFFER_LENGTH \in 2..MaxCap
    /\ ELEMENT_SIZE \in 1..MaxElemSize
    /\ ring_buffer = ring_buffer_init("rb", ZeroHandle, ELEMENT_SIZE,
                                      BUFFER_LENGTH, "storage").handle
    /\ \E b \in ByteVals :
         /\ buffer = Fill(BUFFER_LENGTH * ELEMENT_SIZE, b)
         /\ element = Fill(ELEMENT_SIZE, b)
    /\ last = Call("none", NoReturn, "NULL", "NULL", <<>>, 0, 0, "NULL", NoReturn)
    /\ fault = FALSE
    /\ live = TRUE
    /\ pushed = <<>>
    /\ popped = <<>>
    /\ pushes = 0
    /\ pc = [t \in Threads |-> IF t = "main" THEN "none" ELSE "idle"]
    /\ mutex = "none"
    /\ enqueue_i = 0
    /\ status = [t \in Threads |-> NoReturn]
    /\ frame = [t \in Workers |-> NoFrame]
    /\ cancel = FALSE
    /\ overlap = FALSE

\* the pushing thread calls ring_buffer_push(&ring_buffer, &element)
RacePushCall ==
    /\ Running /\ pc["enqueue"] = "idle"
    /\ \E elem \in Elements(ELEMENT_SIZE) :
         frame' = [frame EXCEPT !["enqueue"] = [elem |-> elem, offset |-> 0]]
    /\ Goto("enqueue", "push_96")
    /\ UNCHANGED <<callerState, ring_buffer, buffer, element, fault, status, overlap>>

\* the call of push has returned
RacePushReturn ==
    /\ Running /\ pc["enqueue"] = "push_ret"
    /\ Goto("enqueue", "idle")
    /\ UNCHANGED <<callerState, ring_buffer, buffer, element, fault, status, frame,
                   overlap>>

\* the popping thread calls ring_buffer_pop(&ring_buffer, &element)
RacePopCall ==
    /\ Running /\ pc["dequeue"] = "idle"
    /\ Goto("dequeue", "pop_134")
    /\ UNCHANGED <<callerState, ring_buffer, buffer, element, fault, status, frame,
                   overlap>>

\* the call of pop has returned
RacePopReturn ==
    /\ Running /\ pc["dequeue"] = "pop_ret"
    /\ Goto("dequeue", "idle")
    /\ UNCHANGED <<callerState, ring_buffer, buffer, element, fault, status, frame,
                   overlap>>

RaceNext ==
    \/ RacePushCall \/ PushStep \/ RacePushReturn
    \/ RacePopCall \/ PopStep \/ RacePopReturn

RaceSpec == RaceInit /\ [][RaceNext]_vars

\* the index/flag invariant of the handle as it stands
IndexFlagInvariant(hd) ==
    /\ (0 <= hd.head) /\ (hd.head < hd.length)
    /\ (0 <= hd.tail) /\ (hd.tail < hd.length)
    /\ ~((hd.is_full # 0) /\ (hd.is_empty # 0))
    /\ (hd.head = hd.tail) <=> ((hd.is_full # 0) \/ (hd.is_empty # 0))

\* no call of push or pop is in progress
Quiescent == \A t \in Workers : ~InCall(t) /\ pc[t] # "push_ret" /\ pc[t] # "pop_ret"

HarnessInit ==
    /\ BUFFER_LENGTH \in 2..MaxCap
    /\ ELEMENT_SIZE \in 1..MaxElemSize
    /\ ring_buffer \in ring_buffer_t
    /\ \E b \in ByteVals :
         /\ buffer = Fill(BUFFER_LENGTH * ELEMENT_SIZE, b)
         /\ element = Fill(ELEMENT_SIZE, b)
    /\ last = Call("none", NoReturn, "NULL", "NULL", <<>>, 0, 0, "NULL", NoReturn)
    /\ fault = FALSE
    /\ live = FALSE
    /\ pushed = <<>>
    /\ popped = <<>>
    /\ pushes = 0
    /\ pc = [t \in Threads |-> IF t = "main" THEN "mutex_init_153" ELSE "unborn"]
    /\ mutex = "none"
    /\ enqueue_i = 0
    /\ status = [t \in Threads |-> NoReturn]
    /\ frame = [t \in Workers |-> NoFrame]
    /\ cancel = FALSE
    /\ overlap = FALSE

\* pthread_mutex_lock returns when the mutex is not held
MutexFree_Always(m) == TRUE

MutexFree(m) == m = "free"

\* what main's statements leave alone
mainFrame == <<BUFFER_LENGTH, ELEMENT_SIZE, buffer, element, last, fault, pushed,
               popped, pushes, enqueue_i, frame>>

\* main, lines 153-157: pthread_mutex_init, which may fail
MainMutexInit ==
    /\ Running /\ pc["main"] = "mutex_init_153"
    /\ \/ mutex' = "free" /\ Goto("main", "init_160")
       \/ mutex' = mutex /\ Goto("main", "return_m1")
    /\ UNCHANGED <<mainFrame, ring_buffer, live, status, cancel, overlap>>

\* main, lines 160-168: ring_buffer_init on the handle as the stack left it
MainInit ==
    /\ Running /\ pc["main"] = "init_160"
    /\ LET r == ring_buffer_init("rb", ring_buffer, ELEMENT_SIZE, BUFFER_LENGTH,
                                 "storage")
       IN  /\ ring_buffer' = r.handle
           /\ status' = [status EXCEPT !["main"] = r.ret]
           /\ live' = (r.ret = RING_BUFFER_OK)
           /\ IF r.ret = RING_BUFFER_OK
              THEN mutex' = mutex /\ Goto("main", "create_178")
              ELSE mutex' = "destroyed" /\ Goto("main", "return_m1")
    /\ Overlapping("main")
    /\ UNCHANGED <<mainFrame, cancel>>

\* main, lines 178-184: pthread_create(enqueue_thread), which may fail; then
\* main destroys the buffer and the mutex and returns -1
MainCreateEnqueue ==
    /\ Running /\ pc["main"] = "create_178"
    /\ \/ /\ pc' = [pc EXCEPT !["main"] = "create_187", !["enqueue"] = "for_52"]
          /\ UNCHANGED <<ring_buffer, live, mutex, status>>
       \/ LET r == ring_buffer_destroy("rb", ring_buffer)
          IN  /\ ring_buffer' = r.handle
              /\ live' = (live /\ (r.ret # RING_BUFFER_OK))
              /\ mutex' = "destroyed"
              /\ Goto("main", "return_m1")
              /\ UNCHANGED status
    /\ UNCHANGED <<mainFrame, cancel, overlap>>

\* main, lines 187-190: pthread_create(dequeue_thread), which may fail; then
\* main requests the cancellation of the enqueue thread
MainCreateDequeue ==
    /\ Running /\ pc["main"] = "create_187"
    /\ \/ /\ pc' = [pc EXCEPT !["main"] = "join_197", !["dequeue"] = "lock_108"]
          /\ cancel' = cancel
       \/ /\ Goto("main", "destroy_191")
          /\ cancel' = TRUE
    /\ UNCHANGED <<mainFrame, ring_buffer, live, mutex, status, overlap>>

\* main, line 191: ring_buffer_destroy, with the enqueue thread still
\* running until it is cancelled
MainCleanup ==
    /\ Running /\ pc["main"] = "destroy_191"
    /\ LET r == ring_buffer_destroy("rb", ring_buffer)
       IN  /\ ring_buffer' = r.handle
           /\ live' = (live /\ (r.ret # RING_BUFFER_OK))
    /\ Goto("main", "return_193")
    /\ Overlapping("main")
    /\ UNCHANGED <<mainFrame, mutex, status, cancel>>

\* main, lines 192-193: pthread_mutex_destroy; return -1
MainCleanupReturn ==
    /\ Running /\ pc["main"] = "return_193"
    /\ mutex' = "destroyed"
    /\ Goto("main", "return_m1")
    /\ UNCHANGED <<mainFrame, ring_buffer, live, status, cancel, overlap>>

\* main, line 197: pthread_join(enqueue_tid) returns when the thread has ended
MainJoinEnqueue ==
    /\ Running /\ pc["main"] = "join_197"
    /\ pc["enqueue"] = "done"
    /\ Goto("main", "join_198")
    /\ UNCHANGED <<mainFrame, ring_buffer, live, mutex, status, cancel, overlap>>

\* main, line 198: pthread_join(dequeue_tid)
MainJoinDequeue ==
    /\ Running /\ pc["main"] = "join_198"
    /\ pc["dequeue"] = "done"
    /\ Goto("main", "state_201")
    /\ UNCHANGED <<mainFrame, ring_buffer, live, mutex, status, cancel, overlap>>

\* main, lines 201-214: status = ring_buffer_state(&ring_buffer), printed
MainState ==
    /\ Running /\ pc["main"] = "state_201"
    /\ Return("main", ring_buffer_state("rb", ring_buffer), "destroy_217")
    /\ Overlapping("main")
    /\ UNCHANGED <<mainFrame, ring_buffer, live, mutex, cancel>>

\* main, lines 217-231: ring_buffer_destroy, pthread_mutex_destroy, return
MainDestroy ==
    /\ Running /\ pc["main"] = "destroy_217"
    /\ LET r == ring_buffer_destroy("rb", ring_buffer)
       IN  /\ ring_buffer' = r.handle
           /\ live' = (live /\ (r.ret # RING_BUFFER_OK))
           /\ Return("main", r.ret, IF r.ret = RING_BUFFER_OK
                                    THEN "return_0" ELSE "return_m1")
    /\ mutex' = "destroyed"
    /\ Overlapping("main")
    /\ UNCHANGED <<mainFrame, cancel>>

MainThread ==
    \/ MainMutexInit \/ MainInit \/ MainCreateEnqueue \/ MainCreateDequeue
    \/ MainCleanup \/ MainCleanupReturn \/ MainJoinEnqueue
    \/ MainJoinDequeue \/ MainState
    \/ MainDestroy

\* what the workers' own statements (outside push and pop) leave alone
workerFrame == <<BUFFER_LENGTH, ELEMENT_SIZE, ring_buffer, buffer, element, last,
                 fault, live, pushes, status, cancel, overlap>>

\* enqueue_thread, line 52: for (i = 0; i < params->max_elements; i++)
EnqueueFor ==
    /\ Running /\ pc["enqueue"] = "for_52"
    /\ Goto("enqueue", IF enqueue_i < TOTAL_ELEMENTS THEN "lock_58" ELSE "done")
    /\ UNCHANGED <<workerFrame, pushed, popped, mutex, enqueue_i, frame>>

\* enqueue_thread, lines 54-59: element = (int)i; pthread_mutex_lock(mutex);
\* ring_buffer_push(ring, &element) is entered
EnqueueLock ==
    /\ Running /\ pc["enqueue"] = "lock_58"
    /\ MutexFree(mutex)
    /\ mutex' = "enqueue"
    /\ frame' = [frame EXCEPT !["enqueue"] =
                    [elem |-> ToBytes(enqueue_i, ELEMENT_SIZE), offset |-> 0]]
    /\ Goto("enqueue", "push_96")
    /\ UNCHANGED <<workerFrame, pushed, popped, enqueue_i>>

\* enqueue_thread, lines 61-74: the outcome is printed; printf is a
\* cancellation point, where a requested cancellation may end the thread
EnqueueReport ==
    /\ Running /\ pc["enqueue"] = "push_ret"
    /\ pushed' = IF status["enqueue"] = RING_BUFFER_OK
                 THEN Append(pushed, frame["enqueue"].elem) ELSE pushed
    /\ \E c \in (IF cancel THEN BOOLEAN ELSE {FALSE}) :
         Goto("enqueue", IF c THEN "cancelled" ELSE "unlock_77")
    /\ UNCHANGED <<workerFrame, popped, mutex, enqueue_i, frame>>

\* enqueue_thread, line 77: pthread_mutex_unlock(mutex)
EnqueueUnlock ==
    /\ Running /\ pc["enqueue"] = "unlock_77"
    /\ mutex' = "free"
    /\ Goto("enqueue", "sleep_80")
    /\ UNCHANGED <<workerFrame, pushed, popped, enqueue_i, frame>>

\* enqueue_thread, line 80 and the loop's i++: sleep(1), a cancellation point
EnqueueSleep ==
    /\ Running /\ pc["enqueue"] = "sleep_80"
    /\ IF cancel
       THEN Goto("enqueue", "cancelled") /\ UNCHANGED enqueue_i
       ELSE Goto("enqueue", "for_52") /\ enqueue_i' = enqueue_i + 1
    /\ UNCHANGED <<workerFrame, pushed, popped, mutex, frame>>

EnqueueThread ==
    \/ EnqueueFor \/ EnqueueLock \/ PushStep \/ EnqueueReport
    \/ EnqueueUnlock \/ EnqueueSleep

\* the consumer's exit test with the comparison reversed
DequeueExit_Unequal(hd) == hd.head # hd.tail

\* dequeue_thread, line 118: if (ring->head == ring->tail)
DequeueExit(hd) == hd.head = hd.tail

\* dequeue_thread, lines 108-109: pthread_mutex_lock(mutex);
\* ring_buffer_pop(ring, &element) is entered
DequeueLock ==
    /\ Running /\ pc["dequeue"] = "lock_108"
    /\ MutexFree(mutex)
    /\ mutex' = "dequeue"
    /\ Goto("dequeue", "pop_134")
    /\ UNCHANGED <<workerFrame, pushed, popped, enqueue_i, frame>>

\* dequeue_thread, lines 111-115 and 128-131: on Ok the element is printed,
\* on Empty the exit test follows, any other status is printed
DequeueReport ==
    /\ Running /\ pc["dequeue"] = "pop_ret"
    /\ popped' = IF status["dequeue"] = RING_BUFFER_OK
                 THEN Append(popped, SubSeq(element, 1, ELEMENT_SIZE))
                 ELSE popped
    /\ Goto("dequeue", IF status["dequeue"] = RING_BUFFER_EMPTY
                       THEN "check_118" ELSE "unlock_134")
    /\ UNCHANGED <<workerFrame, pushed, mutex, enqueue_i, frame>>

\* dequeue_thread, lines 118-126: leave the loop when head == tail,
\* otherwise print "Buffer is empty"
DequeueCheck ==
    /\ Running /\ pc["dequeue"] = "check_118"
    /\ Goto("dequeue", IF DequeueExit(ring_buffer)
                       THEN "unlock_120" ELSE "unlock_134")
    /\ UNCHANGED <<workerFrame, pushed, popped, mutex, enqueue_i, frame>>

\* dequeue_thread, lines 120-121: pthread_mutex_unlock(mutex); break
DequeueUnlockBreak ==
    /\ Running /\ pc["dequeue"] = "unlock_120"
    /\ mutex' = "free"
    /\ Goto("dequeue", "done")
    /\ UNCHANGED <<workerFrame, pushed, popped, enqueue_i, frame>>

\* dequeue_thread, line 134: pthread_mutex_unlock(mutex)
DequeueUnlock ==
    /\ Running /\ pc["dequeue"] = "unlock_134"
    /\ mutex' = "free"
    /\ Goto("dequeue", "sleep_137")
    /\ UNCHANGED <<workerFrame, pushed, popped, enqueue_i, frame>>

\* dequeue_thread, line 137: sleep(1), then the loop's next round
DequeueSleep ==
    /\ Running /\ pc["dequeue"] = "sleep_137"
    /\ Goto("dequeue", "lock_108")
    /\ UNCHANGED <<workerFrame, pushed, popped, mutex, enqueue_i, frame>>

DequeueThread ==
    \/ DequeueLock \/ PopStep \/ DequeueReport \/ DequeueCheck
    \/ DequeueUnlockBreak \/ DequeueUnlock \/ DequeueSleep

HarnessNext == MainThread \/ EnqueueThread \/ DequeueThread

HarnessSpec == HarnessInit /\ [][HarnessNext]_vars

\* every thread that can run a statement eventually runs one
FairHarnessSpec ==
    /\ HarnessSpec
    /\ WF_vars(MainThread)
    /\ WF_vars(EnqueueThread)
    /\ WF_vars(DequeueThread)

\* the push attempts the enqueue thread has made
Attempts ==
    enqueue_i + (IF pc["enqueue"] \in {"push_ret", "unlock_77", "sleep_80"}
                 THEN 1 ELSE 0)

\* both workers have been created
WorkersStarted == pc["dequeue"] # "unborn"

\* C18: the dequeue thread leaves its loop only when the buffer is empty and
\* the enqueue thread has made all TOTAL_ELEMENTS push attempts, so when main
\* has reported the final state every pushed element has been popped.
C18_ConsumerExitsLast ==
    /\ (pc["dequeue"] = "unlock_120") => (ring_buffer.is_empty # 0)
    /\ (pc["dequeue"] \in {"unlock_120", "done"}) => (Attempts = TOTAL_ELEMENTS)
    /\ (pc["main"] = "destroy_217") => (popped = pushed)

Finished ==
    /\ pc["main"] = "return_0"
    /\ status["main"] = RING_BUFFER_OK
    /\ pc["enqueue"] = "done" /\ enqueue_i = TOTAL_ELEMENTS
    /\ pc["dequeue"] = "done"
    /\ mutex = "destroyed"

\* C20: with every thread scheduled fairly, every run ends (main returns, or
\* the process is terminated); once both workers are started, the enqueue
\* thread ends after TOTAL_ELEMENTS attempts, the dequeue thread leaves its
\* loop, never keeping the mutex, both joins return and the final
\* ring_buffer_destroy returns Ok.
C20_Termination ==
    /\ <>(~Running)
    /\ WorkersStarted ~> Finished
    /\ []((pc["dequeue"] = "done") => (mutex # "dequeue"))

\* C20 witness: main has returned 0 after a run in which a push was refused
\* as Full and elements were popped.
C20_Witness ==
    /\ Finished
    /\ Len(pushed) < TOTAL_ELEMENTS
    /\ Len(popped) > 0

(* ------------------- a caller with large elements ----------------------- *)
\* The calling program of Spec with elements of half the range of uint32_t
\* (2^31 bytes in the program): ring_buffer_init accepts every element_size
\* > 0 and length >= 2, and from length 3 on the storage is longer than a
\* uint32_t can index.
WideInit ==
    /\ NoThreads
    /\ BUFFER_LENGTH \in 2..MaxCap
    /\ ELEMENT_SIZE = UINT32_MOD \div 2
    /\ ring_buffer \in ring_buffer_t
    /\ \E b \in ByteVals :
         /\ buffer = Fill(BUFFER_LENGTH * ELEMENT_SIZE, b)
         /\ element = Fill(ELEMENT_SIZE, b)
    /\ last = Call("none", NoReturn, "NULL", "NULL", <<>>, 0, 0, "NULL", NoReturn)
    /\ fault = FALSE
    /\ live = FALSE
    /\ pushed = <<>>
    /\ popped = <<>>
    /\ pushes = 0

WideSpec == WideInit /\ [][Next]_vars

\* C21: a successful push on an initialized buffer writes the element to the
\* storage bytes [head * element_size, head * element_size + element_size)
\* and a successful pop reads the bytes at tail * element_size, the product
\* being the mathematical one, for every geometry init accepts.
C21_ExactSlotAddressing ==
    [][/\ (live /\ ValidCall(last', "push") /\ last'.ret = RING_BUFFER_OK) =>
            (buffer' = MemWrite(buffer,
                                ring_buffer.head * ring_buffer.element_size,
                                last'.elem, ring_buffer.element_size))
       /\ (live /\ ValidCall(last', "pop") /\ last'.ret = RING_BUFFER_OK) =>
            (SubSeq(element', 1, ring_buffer.element_size)
               = MemRead(buffer, ring_buffer.tail * ring_buffer.element_size,
                         ring_buffer.element_size))]_vars

====
